---------------------------- MODULE Spec2Model ----------------------------
(***************************************************************************)
(* A model of the XDP packet programs of the xdp-tutorial lessons          *)
(* packet01-parsing, packet02-rewriting and packet-solutions, and of the   *)
(* parsing helpers in common/parsing_helpers.h.                            *)
(*                                                                         *)
(* A packet buffer is a byte memory `mem` (a function from addresses to    *)
(* bytes) with the two pointers ctx->data (`head`) and ctx->data_end       *)
(* (`tail`).  Pointers are addresses into `mem`; a header cursor is one    *)
(* address.  Multi-byte fields are loaded and stored in host byte order,   *)
(* and bpf_htons/bpf_ntohs convert as the target's endianness says (`be`). *)
(***************************************************************************)
EXTENDS Integers, Sequences, FiniteSets, TLC

VARIABLES
    be,     \* TRUE on a big-endian BPF target (bpfeb), FALSE on bpfel
    pkt,    \* the packet buffer: [mem, head, tail]
    pkt0,   \* the packet buffer as it arrived
    nh,     \* struct hdr_cursor: nh.pos
    last,   \* the last helper call: its name, result and the state before it
    mode,   \* which harness drives the buffer: "parse", "vlan", "prog", "csum"
    calls,  \* the number of helper calls made so far
    run     \* the outcome of the packet program that ran on the buffer

vars == <<be, pkt, pkt0, nh, last, mode, calls, run>>

---------------------------------------------------------------------------
(* Bounds of the model *)

\* headroom in front of the frame (the kernel gives 256; two tags fit here)
HeadRoom == 8
\* the deepest VLAN stack of the generated frames
MaxTags == 6
\* how many VLAN operations one behaviour chains
MaxVlanOps == 2
\* how many parser calls one behaviour chains
MaxCalls == 3

---------------------------------------------------------------------------
(* Program constants *)

VLAN_MAX_DEPTH == 5

ETH_HLEN == 14
VLAN_HLEN == 4
IPHDR_LEN == 20
IP6HDR_LEN == 40
ICMPHDR_LEN == 8
TCPHDR_LEN == 20
UDPHDR_LEN == 8

ETH_P_IP == 2048
ETH_P_IPV6 == 34525
ETH_P_8021Q == 33024
ETH_P_8021AD == 34984

IPPROTO_ICMP == 1
IPPROTO_TCP == 6
IPPROTO_UDP == 17
IPPROTO_ICMPV6 == 58

ICMP_ECHO == 8
ICMP_ECHOREPLY == 0
ICMPV6_ECHO_REQUEST == 128
ICMPV6_ECHO_REPLY == 129

\* the NULL pointer, and the error result of the helpers
NULL == 0 - 1
ERR == 0 - 1

---------------------------------------------------------------------------
(* Bytes, words and byte order *)

Byte == 0 .. 255

bswap16(x) == (x % 256) * 256 + (x \div 256)

\* bpf_htons and bpf_ntohs: the identity on a big-endian target, a swap otherwise
bpf_htons(x) == IF be THEN x % 65536 ELSE bswap16(x % 65536)

bpf_ntohs(x) == IF be THEN x % 65536 ELSE bswap16(x % 65536)

\* *(__u16 *)(m + a): a 16-bit load in host byte order
load16(m, a) == IF be THEN m[a] * 256 + m[a + 1] ELSE m[a] + 256 * m[a + 1]

\* *(__u16 *)(m + a) = v
store16(m, a, v) ==
    IF be THEN [m EXCEPT ![a] = (v % 65536) \div 256, ![a + 1] = v % 256]
    ELSE [m EXCEPT ![a] = v % 256, ![a + 1] = (v % 65536) \div 256]

\* the 16-bit big-endian value the wire holds at a (what a reader of the frame sees)
wire16(m, a) == m[a] * 256 + m[a + 1]

\* memcpy(m + dst, src bytes, n) where the source was copied out before
memcpy(m, dst, bytes) ==
    [a \in DOMAIN m |-> IF a >= dst /\ a < dst + Len(bytes) THEN bytes[a - dst + 1] ELSE m[a]]

\* the n bytes at a, as a copy
bytesAt(m, a, n) == [i \in 1 .. n |-> m[a + i - 1]]

---------------------------------------------------------------------------
(* common/parsing_helpers.h *)

proto_is_vlan(h_proto) ==
    h_proto = bpf_htons(ETH_P_8021Q) \/ h_proto = bpf_htons(ETH_P_8021AD)

\* vlan_loop with the bound off by one (i <= VLAN_MAX_DEPTH)
RECURSIVE vlan_loop_off_by_one(_, _, _, _, _)
vlan_loop_off_by_one(m, vlh, h_proto, data_end, i) ==
    IF i > VLAN_MAX_DEPTH THEN [vlh |-> vlh, h_proto |-> h_proto, i |-> i]
    ELSE IF ~proto_is_vlan(h_proto) THEN [vlh |-> vlh, h_proto |-> h_proto, i |-> i]
    ELSE IF vlh + VLAN_HLEN > data_end THEN [vlh |-> vlh, h_proto |-> h_proto, i |-> i]
    ELSE vlan_loop_off_by_one(m, vlh + VLAN_HLEN, load16(m, vlh + 2), data_end, i + 1)

\* the unrolled loop of parse_ethhdr: vlh, h_proto and i after it
RECURSIVE vlan_loop(_, _, _, _, _)
vlan_loop(m, vlh, h_proto, data_end, i) ==
    IF i >= VLAN_MAX_DEPTH THEN [vlh |-> vlh, h_proto |-> h_proto, i |-> i]
    ELSE IF ~proto_is_vlan(h_proto) THEN [vlh |-> vlh, h_proto |-> h_proto, i |-> i]
    ELSE IF vlh + VLAN_HLEN > data_end THEN [vlh |-> vlh, h_proto |-> h_proto, i |-> i]
    ELSE vlan_loop(m, vlh + VLAN_HLEN, load16(m, vlh + 2), data_end, i + 1)

\* parse_ethhdr answering -1 when a VLAN ethertype is followed by less than a
\* tag, the way get_ip6hdr gives up with NULL
parse_ethhdr_fails_on_cut_tag(m, pos, data_end) ==
    IF pos + ETH_HLEN > data_end
    THEN [ret |-> ERR, pos |-> pos, mem |-> m, hdr |-> NULL, iters |-> 0]
    ELSE LET l == vlan_loop(m, pos + ETH_HLEN, load16(m, pos + 12), data_end, 0)
         IN IF l.i < VLAN_MAX_DEPTH /\ proto_is_vlan(l.h_proto)
            THEN [ret |-> ERR, pos |-> pos, mem |-> m, hdr |-> NULL, iters |-> l.i]
            ELSE [ret |-> bpf_ntohs(l.h_proto), pos |-> l.vlh, mem |-> m, hdr |-> pos,
                  iters |-> l.i]

\* Every parser yields [ret, pos, mem, hdr, iters]: the result, the cursor and
\* the packet memory after the call, the header pointer it stored, and the
\* loop iterations it completed.
parse_ethhdr(m, pos, data_end) ==
    IF pos + ETH_HLEN > data_end
    THEN [ret |-> ERR, pos |-> pos, mem |-> m, hdr |-> NULL, iters |-> 0]
    ELSE LET l == vlan_loop(m, pos + ETH_HLEN, load16(m, pos + 12), data_end, 0)
         IN [ret |-> bpf_ntohs(l.h_proto), pos |-> l.vlh, mem |-> m, hdr |-> pos,
             iters |-> l.i]

parse_ip6hdr(m, pos, data_end) ==
    IF pos + IP6HDR_LEN > data_end
    THEN [ret |-> ERR, pos |-> pos, mem |-> m, hdr |-> NULL, iters |-> 0]
    ELSE [ret |-> m[pos + 6], pos |-> pos + IP6HDR_LEN, mem |-> m, hdr |-> pos,
          iters |-> 0]

\* iph->ihl: the low nibble of the first byte of the header
ip_ihl(m, iph) == m[iph] % 16

\* parse_iphdr without the second, byte-based bounds check
parse_iphdr_fixed_check_only(m, pos, data_end) ==
    IF pos + IPHDR_LEN > data_end
    THEN [ret |-> ERR, pos |-> pos, mem |-> m, hdr |-> NULL, iters |-> 0]
    ELSE [ret |-> m[pos + 9], pos |-> pos + ip_ihl(m, pos) * 4, mem |-> m, hdr |-> pos,
          iters |-> 0]

\* parse_iphdr advancing by sizeof(*iph), not by ihl * 4
parse_iphdr_advances_fixed_size(m, pos, data_end) ==
    IF pos + IPHDR_LEN > data_end
    THEN [ret |-> ERR, pos |-> pos, mem |-> m, hdr |-> NULL, iters |-> 0]
    ELSE LET hdrsize == ip_ihl(m, pos) * 4
         IN IF pos + hdrsize > data_end
            THEN [ret |-> ERR, pos |-> pos, mem |-> m, hdr |-> NULL, iters |-> 0]
            ELSE [ret |-> m[pos + 9], pos |-> pos + IPHDR_LEN, mem |-> m, hdr |-> pos,
                  iters |-> 0]

parse_iphdr(m, pos, data_end) ==
    IF pos + IPHDR_LEN > data_end
    THEN [ret |-> ERR, pos |-> pos, mem |-> m, hdr |-> NULL, iters |-> 0]
    ELSE LET hdrsize == ip_ihl(m, pos) * 4
         IN IF pos + hdrsize > data_end
            THEN [ret |-> ERR, pos |-> pos, mem |-> m, hdr |-> NULL, iters |-> 0]
            ELSE [ret |-> m[pos + 9], pos |-> pos + hdrsize, mem |-> m, hdr |-> pos,
                  iters |-> 0]

parse_icmp6hdr(m, pos, data_end) ==
    IF pos + ICMPHDR_LEN > data_end
    THEN [ret |-> ERR, pos |-> pos, mem |-> m, hdr |-> NULL, iters |-> 0]
    ELSE [ret |-> m[pos], pos |-> pos + ICMPHDR_LEN, mem |-> m, hdr |-> pos,
          iters |-> 0]

parse_icmphdr(m, pos, data_end) ==
    IF pos + ICMPHDR_LEN > data_end
    THEN [ret |-> ERR, pos |-> pos, mem |-> m, hdr |-> NULL, iters |-> 0]
    ELSE [ret |-> m[pos], pos |-> pos + ICMPHDR_LEN, mem |-> m, hdr |-> pos,
          iters |-> 0]

---------------------------------------------------------------------------
(* packet02-rewriting/xdp_prog_kern.c: the TCP and UDP parsers *)

\* hdr->dest = bpf_htons(bpf_ntohs(hdr->dest) - 1), the dest field at hdr + 2
dec_dest_port(m, hdr) ==
    store16(m, hdr + 2, bpf_htons((bpf_ntohs(load16(m, hdr + 2)) + 65535) % 65536))

parse_tcphdr(m, pos, data_end) ==
    IF pos + TCPHDR_LEN > data_end
    THEN [ret |-> ERR, pos |-> pos, mem |-> m, hdr |-> NULL, iters |-> 0]
    ELSE [ret |-> 0, pos |-> pos + TCPHDR_LEN, mem |-> dec_dest_port(m, pos),
          hdr |-> pos, iters |-> 0]

parse_udphdr(m, pos, data_end) ==
    IF pos + UDPHDR_LEN > data_end
    THEN [ret |-> ERR, pos |-> pos, mem |-> m, hdr |-> NULL, iters |-> 0]
    ELSE [ret |-> 0, pos |-> pos + UDPHDR_LEN, mem |-> dec_dest_port(m, pos),
          hdr |-> pos, iters |-> 0]

---------------------------------------------------------------------------
(* packet01-parsing/xdp_prog_kern.c: the lesson's own parsers *)

p01_parse_ethhdr(m, pos, data_end) ==
    IF pos + ETH_HLEN > data_end
    THEN [ret |-> ERR, pos |-> pos, mem |-> m, hdr |-> NULL, iters |-> 0]
    ELSE [ret |-> bpf_ntohs(load16(m, pos + 12)), pos |-> pos + ETH_HLEN, mem |-> m,
          hdr |-> pos, iters |-> 0]

p01_parse_vlanhdr(m, pos, data_end) ==
    IF pos + VLAN_HLEN > data_end
    THEN [ret |-> ERR, pos |-> pos, mem |-> m, hdr |-> NULL, iters |-> 0]
    ELSE [ret |-> bpf_ntohs(load16(m, pos + 2)), pos |-> pos + VLAN_HLEN, mem |-> m,
          hdr |-> pos, iters |-> 0]

\* bpf_ntohs of the one-byte nexthdr, widened to 16 bits
p01_parse_ip6hdr(m, pos, data_end) ==
    IF pos + IP6HDR_LEN > data_end
    THEN [ret |-> ERR, pos |-> pos, mem |-> m, hdr |-> NULL, iters |-> 0]
    ELSE [ret |-> bpf_ntohs(m[pos + 6]), pos |-> pos + IP6HDR_LEN, mem |-> m,
          hdr |-> pos, iters |-> 0]

p01_parse_icmp6hdr(m, pos, data_end) ==
    IF pos + ICMPHDR_LEN > data_end
    THEN [ret |-> ERR, pos |-> pos, mem |-> m, hdr |-> NULL, iters |-> 0]
    ELSE [ret |-> 0, pos |-> pos + ICMPHDR_LEN, mem |-> m, hdr |-> pos, iters |-> 0]

---------------------------------------------------------------------------
(* The kernel helpers and the statistics collector the programs call *)

\* bpf_xdp_adjust_head(ctx, delta): moves ctx->data by delta and returns 0, or
\* changes nothing and returns an error.  The kernel may refuse (ok = FALSE);
\* it always refuses to move the head out of the buffer or past the tail.
bpf_xdp_adjust_head(c, delta, ok) ==
    IF ~ok \/ c.head + delta < 0 \/ c.head + delta > c.tail
    THEN [ret |-> ERR, ctx |-> c]
    ELSE [ret |-> 0, ctx |-> [c EXCEPT !.head = c.head + delta]]

\* xdp_stats_record_action(ctx, action): counts the action and returns it
xdp_stats_record_action(stats, action) ==
    [stats |-> Append(stats, action), ret |-> action]

---------------------------------------------------------------------------
(* packet-solutions/xdp_prog_kern.c: VLAN tag pop and push *)

\* vlan_tag_pop returning the 12-bit VLAN id alone, not the whole control field
vlan_tag_pop_vid_only(c, eth, ok) ==
    IF ~proto_is_vlan(load16(c.mem, eth + 12)) THEN [ret |-> ERR, ctx |-> c]
    ELSE LET vlh == eth + ETH_HLEN
         IN IF vlh + VLAN_HLEN > c.tail THEN [ret |-> ERR, ctx |-> c]
            ELSE LET vlid == bpf_ntohs(load16(c.mem, vlh)) % 4096
                     h_proto == load16(c.mem, vlh + 2)
                     eth_cpy == bytesAt(c.mem, eth, ETH_HLEN)
                     a == bpf_xdp_adjust_head(c, VLAN_HLEN, ok)
                     eth2 == a.ctx.head
                 IN IF a.ret # 0 THEN [ret |-> ERR, ctx |-> a.ctx]
                    ELSE IF eth2 + ETH_HLEN > a.ctx.tail THEN [ret |-> ERR, ctx |-> a.ctx]
                    ELSE [ret |-> vlid,
                          ctx |-> [a.ctx EXCEPT !.mem =
                                     store16(memcpy(a.ctx.mem, eth2, eth_cpy),
                                             eth2 + 12, h_proto)]]

\* vlan_tag_pop that puts the encapsulated ethertype into the Ethernet header
\* copy's place before it asks for the head to move
vlan_tag_pop_writes_before_resize(c, eth, ok) ==
    IF ~proto_is_vlan(load16(c.mem, eth + 12)) THEN [ret |-> ERR, ctx |-> c]
    ELSE LET vlh == eth + ETH_HLEN
         IN IF vlh + VLAN_HLEN > c.tail THEN [ret |-> ERR, ctx |-> c]
            ELSE LET vlid == bpf_ntohs(load16(c.mem, vlh))
                     h_proto == load16(c.mem, vlh + 2)
                     eth_cpy == bytesAt(c.mem, eth, ETH_HLEN)
                     w == [c EXCEPT !.mem = store16(memcpy(c.mem, eth + VLAN_HLEN, eth_cpy),
                                                    eth + VLAN_HLEN + 12, h_proto)]
                     a == bpf_xdp_adjust_head(w, VLAN_HLEN, ok)
                     eth2 == a.ctx.head
                 IN IF a.ret # 0 THEN [ret |-> ERR, ctx |-> a.ctx]
                    ELSE IF eth2 + ETH_HLEN > a.ctx.tail THEN [ret |-> ERR, ctx |-> a.ctx]
                    ELSE [ret |-> vlid, ctx |-> a.ctx]

\* Both yield [ret, ctx]: the result and the buffer after the call.
vlan_tag_pop(c, eth, ok) ==
    IF ~proto_is_vlan(load16(c.mem, eth + 12)) THEN [ret |-> ERR, ctx |-> c]
    ELSE LET vlh == eth + ETH_HLEN
         IN IF vlh + VLAN_HLEN > c.tail THEN [ret |-> ERR, ctx |-> c]
            ELSE LET vlid == bpf_ntohs(load16(c.mem, vlh))
                     h_proto == load16(c.mem, vlh + 2)
                     eth_cpy == bytesAt(c.mem, eth, ETH_HLEN)
                     a == bpf_xdp_adjust_head(c, VLAN_HLEN, ok)
                     eth2 == a.ctx.head
                 IN IF a.ret # 0 THEN [ret |-> ERR, ctx |-> a.ctx]
                    ELSE IF eth2 + ETH_HLEN > a.ctx.tail THEN [ret |-> ERR, ctx |-> a.ctx]
                    ELSE [ret |-> vlid,
                          ctx |-> [a.ctx EXCEPT !.mem =
                                     store16(memcpy(a.ctx.mem, eth2, eth_cpy),
                                             eth2 + 12, h_proto)]]

vlan_tag_push(c, eth, vlid, ok) ==
    LET eth_cpy == bytesAt(c.mem, eth, ETH_HLEN)
        a == bpf_xdp_adjust_head(c, 0 - VLAN_HLEN, ok)
        eth2 == a.ctx.head
        vlh == eth2 + ETH_HLEN
        m1 == memcpy(a.ctx.mem, eth2, eth_cpy)
        m2 == store16(m1, vlh, bpf_htons(vlid))
        m3 == store16(m2, vlh + 2, load16(m2, eth2 + 12))
        m4 == store16(m3, eth2 + 12, bpf_htons(ETH_P_8021Q))
    IN IF a.ret # 0 THEN [ret |-> ERR, ctx |-> a.ctx]
       ELSE IF eth2 + ETH_HLEN > a.ctx.tail THEN [ret |-> ERR, ctx |-> a.ctx]
       ELSE IF vlh + VLAN_HLEN > a.ctx.tail
            THEN [ret |-> ERR, ctx |-> [a.ctx EXCEPT !.mem = m1]]
       ELSE [ret |-> 0, ctx |-> [a.ctx EXCEPT !.mem = m4]]

---------------------------------------------------------------------------
(* packet02-rewriting/xdp_prog_kern.c: VLAN tag pop and push *)

p02_vlan_tag_pop(c, eth, ok) ==
    LET vlh == eth + ETH_HLEN
    IN IF ~proto_is_vlan(load16(c.mem, eth + 12)) THEN [ret |-> ERR, ctx |-> c]
       ELSE IF vlh + VLAN_HLEN > c.tail THEN [ret |-> ERR, ctx |-> c]
       ELSE LET vlid == bpf_ntohs(load16(c.mem, vlh))
                \* eth_cpy = *eth; eth_cpy.h_proto = vlh->h_vlan_encapsulated_proto
                eth_cpy == [i \in 1 .. ETH_HLEN |->
                              IF i <= 12 THEN c.mem[eth + i - 1] ELSE c.mem[vlh + i - 11]]
                a == bpf_xdp_adjust_head(c, VLAN_HLEN, ok)
                eth2 == a.ctx.head
            IN IF a.ret # 0 THEN [ret |-> ERR, ctx |-> a.ctx]
               ELSE IF eth2 + ETH_HLEN > a.ctx.tail THEN [ret |-> ERR, ctx |-> a.ctx]
               ELSE [ret |-> vlid,
                     ctx |-> [a.ctx EXCEPT !.mem = memcpy(a.ctx.mem, eth2, eth_cpy)]]

\* vlan_tag_push that stores the VLAN id in host byte order (no bpf_htons)
p02_vlan_tag_push_host_order(c, eth, vlid, ok) ==
    IF proto_is_vlan(load16(c.mem, eth + 12)) THEN [ret |-> ERR, ctx |-> c]
    ELSE LET eth_cpy == bytesAt(c.mem, eth, ETH_HLEN)
             a == bpf_xdp_adjust_head(c, 0 - VLAN_HLEN, ok)
             eth2 == a.ctx.head
             vlh == eth2 + ETH_HLEN
             m1 == memcpy(a.ctx.mem, eth2, eth_cpy)
             m2 == store16(m1, vlh, vlid)
             m3 == store16(m2, vlh + 2, load16(m2, eth2 + 12))
             m4 == store16(m3, eth2 + 12, bpf_htons(ETH_P_8021Q))
         IN IF a.ret # 0 THEN [ret |-> ERR, ctx |-> a.ctx]
            ELSE IF eth2 + ETH_HLEN > a.ctx.tail THEN [ret |-> ERR, ctx |-> a.ctx]
            ELSE IF vlh + VLAN_HLEN > a.ctx.tail
                 THEN [ret |-> ERR, ctx |-> [a.ctx EXCEPT !.mem = m1]]
            ELSE [ret |-> 0, ctx |-> [a.ctx EXCEPT !.mem = m4]]

p02_vlan_tag_push(c, eth, vlid, ok) ==
    IF proto_is_vlan(load16(c.mem, eth + 12)) THEN [ret |-> ERR, ctx |-> c]
    ELSE LET eth_cpy == bytesAt(c.mem, eth, ETH_HLEN)
             a == bpf_xdp_adjust_head(c, 0 - VLAN_HLEN, ok)
             eth2 == a.ctx.head
             vlh == eth2 + ETH_HLEN
             m1 == memcpy(a.ctx.mem, eth2, eth_cpy)
             m2 == store16(m1, vlh, bpf_htons(vlid))
             m3 == store16(m2, vlh + 2, load16(m2, eth2 + 12))
             m4 == store16(m3, eth2 + 12, bpf_htons(ETH_P_8021Q))
         IN IF a.ret # 0 THEN [ret |-> ERR, ctx |-> a.ctx]
            ELSE IF eth2 + ETH_HLEN > a.ctx.tail THEN [ret |-> ERR, ctx |-> a.ctx]
            ELSE IF vlh + VLAN_HLEN > a.ctx.tail
                 THEN [ret |-> ERR, ctx |-> [a.ctx EXCEPT !.mem = m1]]
            ELSE [ret |-> 0, ctx |-> [a.ctx EXCEPT !.mem = m4]]

---------------------------------------------------------------------------
(* packet-solutions/xdp_prog_kern.c: address swaps and the checksum update *)

swap_src_dst_mac(m, eth) ==
    LET h_dest == bytesAt(m, eth, 6)
        h_source == bytesAt(m, eth + 6, 6)
    IN memcpy(memcpy(m, eth + 6, h_dest), eth, h_source)

swap_src_dst_ipv6(m, ipv6) ==
    LET saddr == bytesAt(m, ipv6 + 8, 16)
        daddr == bytesAt(m, ipv6 + 24, 16)
    IN memcpy(memcpy(m, ipv6 + 8, daddr), ipv6 + 24, saddr)

swap_src_dst_ipv4(m, iphdr) ==
    LET saddr == bytesAt(m, iphdr + 12, 4)
        daddr == bytesAt(m, iphdr + 16, 4)
    IN memcpy(memcpy(m, iphdr + 12, daddr), iphdr + 16, saddr)

\* ~x on a __u16
not16(x) == 65535 - (x % 65536)

csum16_add(csum, addend) ==
    LET s == (csum + addend) % 65536
    IN (s + (IF s < addend THEN 1 ELSE 0)) % 65536

\* "Patch the packet and update the checksum": lines 229-232
icmp_patch(m, icmphdr, echo_reply) ==
    LET m0 == load16(m, icmphdr)
        ma == [m EXCEPT ![icmphdr] = echo_reply]
        m1 == load16(ma, icmphdr)
        checksum == load16(ma, icmphdr + 2)
    IN store16(ma, icmphdr + 2,
               not16(csum16_add(csum16_add(not16(checksum), not16(m0)), m1)))

---------------------------------------------------------------------------
(* The packet programs.  Each yields [action, ifindex, ctx, stats, fib,    *)
(* cut]: the value it returns, the interface a redirect names (NULL when   *)
(* none), the buffer it leaves, the actions handed to the statistics       *)
(* collector (in order), the number of FIB lookups it made, and whether a  *)
(* bounds check of the run refused a header.                               *)

\* the label out returning the action without a call of the collector
out_unrecorded(c, action, fib, cut) ==
    [action |-> action, ifindex |-> NULL, ctx |-> c, stats |-> <<>>, fib |-> fib,
     cut |-> cut]

\* `return xdp_stats_record_action(ctx, action)` at the label out
out(c, action, fib, cut) ==
    LET r == xdp_stats_record_action(<<>>, action)
    IN [action |-> r.ret, ifindex |-> NULL, ctx |-> c, stats |-> r.stats, fib |-> fib,
        cut |-> cut]

\* a plain `return action`
ret_plain(c, action, cut) ==
    [action |-> action, ifindex |-> NULL, ctx |-> c, stats |-> <<>>, fib |-> 0,
     cut |-> cut]

\* packet01-parsing: xdp_parser_func
p01_xdp_parser_func(c) ==
    LET e == p01_parse_ethhdr(c.mem, c.head, c.tail)
        isv6 == e.ret = ETH_P_IPV6
        isvlan == e.ret = ETH_P_8021Q \/ e.ret = ETH_P_8021AD
        v == p01_parse_vlanhdr(c.mem, e.pos, c.tail)
        pos1 == IF isv6 THEN e.pos ELSE v.pos
        i6 == p01_parse_ip6hdr(c.mem, pos1, c.tail)
        ic == p01_parse_icmp6hdr(c.mem, i6.pos, c.tail)
        cut1 == e.ret = ERR \/ (isvlan /\ v.ret = ERR)
    IN IF ~isv6 /\ ~isvlan THEN out(c, "XDP_PASS", 0, cut1)
       ELSE IF i6.ret # 14848 THEN out(c, "XDP_PASS", 0, cut1 \/ i6.ret = ERR)
       ELSE IF ic.ret # 0 THEN out(c, "XDP_PASS", 0, TRUE)
       ELSE IF bpf_ntohs(load16(c.mem, ic.hdr + 6)) % 2 = 1
            THEN out(c, "XDP_DROP", 0, cut1)
       ELSE out(c, "XDP_PASS", 0, cut1)

\* packet02-rewriting: xdp_parser_func
p02_xdp_parser_func(c) ==
    LET e == parse_ethhdr(c.mem, c.head, c.tail)
        i6 == parse_ip6hdr(c.mem, e.pos, c.tail)
        ic6 == parse_icmp6hdr(c.mem, i6.pos, c.tail)
        i4 == parse_iphdr(c.mem, e.pos, c.tail)
        ic4 == parse_icmphdr(c.mem, i4.pos, c.tail)
    IN IF e.ret = ETH_P_IPV6
       THEN IF i6.ret # IPPROTO_ICMPV6 THEN out(c, "XDP_PASS", 0, i6.ret = ERR)
            ELSE IF ic6.ret # ICMPV6_ECHO_REQUEST THEN out(c, "XDP_PASS", 0, ic6.ret = ERR)
            ELSE IF bpf_ntohs(load16(c.mem, ic6.hdr + 6)) % 2 = 0
                 THEN out(c, "XDP_DROP", 0, FALSE)
            ELSE out(c, "XDP_PASS", 0, FALSE)
       ELSE IF e.ret = ETH_P_IP
       THEN IF i4.ret # IPPROTO_ICMP THEN out(c, "XDP_PASS", 0, i4.ret = ERR)
            ELSE IF ic4.ret # ICMP_ECHO THEN out(c, "XDP_PASS", 0, ic4.ret = ERR)
            ELSE IF bpf_ntohs(load16(c.mem, ic4.hdr + 6)) % 2 = 0
                 THEN out(c, "XDP_DROP", 0, FALSE)
            ELSE out(c, "XDP_PASS", 0, FALSE)
       ELSE out(c, "XDP_PASS", 0, e.ret = ERR)

\* packet02-rewriting: xdp_port_rewrite_func.  An ethertype that is neither
\* IPv6 nor IPv4 leaves the if/else and falls into the label parse_tcp.
xdp_port_rewrite_func(c) ==
    LET e == parse_ethhdr(c.mem, c.head, c.tail)
        l3 == IF e.ret = ETH_P_IPV6 THEN parse_ip6hdr(c.mem, e.pos, c.tail)
              ELSE parse_iphdr(c.mem, e.pos, c.tail)
        isip == e.ret = ETH_P_IPV6 \/ e.ret = ETH_P_IP
        pos1 == IF isip THEN l3.pos ELSE e.pos
        cut1 == e.ret = ERR \/ (isip /\ l3.ret = ERR)
        t == parse_tcphdr(c.mem, pos1, c.tail)
        u == parse_udphdr(c.mem, pos1, c.tail)
    IN IF isip /\ l3.ret = IPPROTO_UDP
       THEN ret_plain([c EXCEPT !.mem = u.mem], "XDP_PASS", cut1 \/ u.ret = ERR)
       ELSE IF isip /\ l3.ret # IPPROTO_TCP
       THEN ret_plain(c, "XDP_PASS", cut1)
       ELSE ret_plain([c EXCEPT !.mem = t.mem], "XDP_PASS", cut1 \/ t.ret = ERR)

\* packet-solutions: xdp_vlan_swap_func
xdp_vlan_swap_func(c, ok) ==
    LET e == parse_ethhdr(c.mem, c.head, c.tail)
    IN IF e.ret < 0 THEN ret_plain(c, "XDP_PASS", TRUE)
       ELSE IF proto_is_vlan(load16(c.mem, e.hdr + 12))
            THEN ret_plain(vlan_tag_pop(c, e.hdr, ok).ctx, "XDP_PASS", FALSE)
       ELSE ret_plain(vlan_tag_push(c, e.hdr, 1, ok).ctx, "XDP_PASS", FALSE)

\* packet02-rewriting: xdp_vlan_swap_func
p02_xdp_vlan_swap_func(c, ok) ==
    LET e == parse_ethhdr(c.mem, c.head, c.tail)
    IN IF e.ret < 0 THEN ret_plain(c, "XDP_PASS", TRUE)
       ELSE IF proto_is_vlan(load16(c.mem, e.hdr + 12))
            THEN ret_plain(p02_vlan_tag_pop(c, e.hdr, ok).ctx, "XDP_PASS", FALSE)
       ELSE ret_plain(p02_vlan_tag_push(c, e.hdr, 1, ok).ctx, "XDP_PASS", FALSE)

\* packet-solutions: xdp_icmp_echo_func
xdp_icmp_echo_func(c) ==
    LET e == parse_ethhdr(c.mem, c.head, c.tail)
        l3 == IF e.ret = ETH_P_IP THEN parse_iphdr(c.mem, e.pos, c.tail)
              ELSE parse_ip6hdr(c.mem, e.pos, c.tail)
        ic == parse_icmphdr(c.mem, l3.pos, c.tail)
        v4 == e.ret = ETH_P_IP /\ ic.ret = ICMP_ECHO
        v6 == e.ret = ETH_P_IPV6 /\ ic.ret = ICMPV6_ECHO_REQUEST
        m1 == IF v4 THEN swap_src_dst_ipv4(c.mem, l3.hdr)
              ELSE swap_src_dst_ipv6(c.mem, l3.hdr)
        echo_reply == IF v4 THEN ICMP_ECHOREPLY ELSE ICMPV6_ECHO_REPLY
        m2 == swap_src_dst_mac(m1, e.hdr)
        m3 == icmp_patch(m2, ic.hdr, echo_reply)
    IN IF e.ret = ETH_P_IP /\ l3.ret # IPPROTO_ICMP THEN out(c, "XDP_PASS", 0, l3.ret = ERR)
       ELSE IF e.ret = ETH_P_IPV6 /\ l3.ret # IPPROTO_ICMPV6
       THEN out(c, "XDP_PASS", 0, l3.ret = ERR)
       ELSE IF e.ret # ETH_P_IP /\ e.ret # ETH_P_IPV6 THEN out(c, "XDP_PASS", 0, e.ret = ERR)
       ELSE IF v4 \/ v6 THEN out([c EXCEPT !.mem = m3], "XDP_TX", 0, FALSE)
       ELSE out(c, "XDP_PASS", 0, ic.ret = ERR)

\* xdp_redirect_func dropping the frame whose Ethernet header does not parse
xdp_redirect_func_drop_on_error(c, dst, ifindex) ==
    LET e == parse_ethhdr(c.mem, c.head, c.tail)
    IN IF e.ret = ERR THEN out(c, "XDP_DROP", 0, TRUE)
       ELSE [out([c EXCEPT !.mem = memcpy(c.mem, e.hdr, dst)], "XDP_REDIRECT", 0, FALSE)
               EXCEPT !.ifindex = ifindex]

\* packet-solutions: xdp_redirect_func; dst and ifindex are left to the reader
\* of the lesson ("TODO: put your values here"), so they are inputs.
\* bpf_redirect(ifindex, 0) returns XDP_REDIRECT.
xdp_redirect_func(c, dst, ifindex) ==
    LET e == parse_ethhdr(c.mem, c.head, c.tail)
    IN IF e.ret = ERR THEN out(c, "XDP_PASS", 0, TRUE)
       ELSE [out([c EXCEPT !.mem = memcpy(c.mem, e.hdr, dst)], "XDP_REDIRECT", 0, FALSE)
               EXCEPT !.ifindex = ifindex]

\* packet-solutions: xdp_redirect_map_func; dst is what the redirect_params map
\* holds for eth->h_source: <<>> for no entry, or six bytes.
\* bpf_redirect_map(&tx_port, 0, 0) returns XDP_REDIRECT.
xdp_redirect_map_func(c, dst) ==
    LET e == parse_ethhdr(c.mem, c.head, c.tail)
    IN IF e.ret = ERR THEN out(c, "XDP_PASS", 0, TRUE)
       ELSE IF dst = <<>> THEN out(c, "XDP_PASS", 0, FALSE)
       ELSE [out([c EXCEPT !.mem = memcpy(c.mem, e.hdr, dst)], "XDP_REDIRECT", 0, FALSE)
               EXCEPT !.ifindex = 0]

\* ip_decrease_ttl: the checksum patch and --iph->ttl
ip_decrease_ttl(m, iph) ==
    LET check == load16(m, iph + 10) + bpf_htons(256)
        m1 == store16(m, iph + 10, (check + (IF check >= 65535 THEN 1 ELSE 0)) % 65536)
    IN [m1 EXCEPT ![iph + 8] = (m[iph + 8] + 255) % 256]

\* the rc values of bpf_fib_lookup, BPF_FIB_LKUP_RET_*
BPF_FIB_LKUP_RET_SUCCESS == 0
BPF_FIB_LKUP_RET_BLACKHOLE == 1
BPF_FIB_LKUP_RET_UNREACHABLE == 2
BPF_FIB_LKUP_RET_PROHIBIT == 3
BPF_FIB_LKUP_RET_NOT_FWDED == 4
BPF_FIB_LKUP_RET_FWD_DISABLED == 5
BPF_FIB_LKUP_RET_UNSUPP_LWT == 6
BPF_FIB_LKUP_RET_NO_NEIGH == 7
BPF_FIB_LKUP_RET_FRAG_NEEDED == 8

\* the switch with BPF_FIB_LKUP_RET_FRAG_NEEDED among the cases that drop
router_switch_frag_needed_drops(c, eth, l3, isv4, fibres) ==
    IF fibres.rc = BPF_FIB_LKUP_RET_SUCCESS
    THEN LET m1 == IF isv4 THEN ip_decrease_ttl(c.mem, l3)
                   ELSE [c.mem EXCEPT ![l3 + 7] = (c.mem[l3 + 7] + 255) % 256]
             m2 == memcpy(m1, eth, fibres.dmac)
             m3 == memcpy(m2, eth + 6, fibres.smac)
         IN [action |-> "XDP_REDIRECT", ifindex |-> fibres.ifindex,
             ctx |-> [c EXCEPT !.mem = m3]]
    ELSE IF fibres.rc \in {BPF_FIB_LKUP_RET_BLACKHOLE, BPF_FIB_LKUP_RET_UNREACHABLE,
                           BPF_FIB_LKUP_RET_PROHIBIT, BPF_FIB_LKUP_RET_FRAG_NEEDED}
    THEN [action |-> "XDP_DROP", ifindex |-> NULL, ctx |-> c]
    ELSE [action |-> "XDP_PASS", ifindex |-> NULL, ctx |-> c]

\* the switch (rc) of xdp_router_func: fibres is what bpf_fib_lookup left in
\* fib_params, [rc, ifindex, smac, dmac].  bpf_redirect_map(&tx_port, ifindex, 0)
\* returns XDP_REDIRECT; the egress interface is kept beside the action.
router_switch(c, eth, l3, isv4, fibres) ==
    IF fibres.rc = BPF_FIB_LKUP_RET_SUCCESS
    THEN LET m1 == IF isv4 THEN ip_decrease_ttl(c.mem, l3)
                   ELSE [c.mem EXCEPT ![l3 + 7] = (c.mem[l3 + 7] + 255) % 256]
             m2 == memcpy(m1, eth, fibres.dmac)
             m3 == memcpy(m2, eth + 6, fibres.smac)
         IN [action |-> "XDP_REDIRECT", ifindex |-> fibres.ifindex,
             ctx |-> [c EXCEPT !.mem = m3]]
    ELSE IF fibres.rc \in {BPF_FIB_LKUP_RET_BLACKHOLE, BPF_FIB_LKUP_RET_UNREACHABLE,
                           BPF_FIB_LKUP_RET_PROHIBIT}
    THEN [action |-> "XDP_DROP", ifindex |-> NULL, ctx |-> c]
    ELSE [action |-> "XDP_PASS", ifindex |-> NULL, ctx |-> c]

\* the test as `ttl < 1`
ttl_exhausted_only_at_zero(ttl) == ttl < 1

\* `if (iph->ttl <= 1)` and `if (ip6h->hop_limit <= 1)`
ttl_exhausted(ttl) == ttl <= 1

\* packet-solutions: xdp_router_func
xdp_router_func(c, fibres) ==
    LET eth == c.head
        nh_off == ETH_HLEN
        l3 == c.head + nh_off
        h_proto == load16(c.mem, eth + 12)
        isv4 == h_proto = bpf_htons(ETH_P_IP)
        isv6 == h_proto = bpf_htons(ETH_P_IPV6)
        s == router_switch(c, eth, l3, isv4, fibres)
    IN IF c.head + nh_off > c.tail THEN out(c, "XDP_DROP", 0, TRUE)
       ELSE IF isv4 /\ l3 + IPHDR_LEN > c.tail THEN out(c, "XDP_DROP", 0, TRUE)
       ELSE IF isv4 /\ ttl_exhausted(c.mem[l3 + 8]) THEN out(c, "XDP_PASS", 0, FALSE)
       ELSE IF isv6 /\ l3 + IP6HDR_LEN > c.tail THEN out(c, "XDP_DROP", 0, TRUE)
       ELSE IF isv6 /\ ttl_exhausted(c.mem[l3 + 7]) THEN out(c, "XDP_PASS", 0, FALSE)
       ELSE IF ~isv4 /\ ~isv6 THEN out(c, "XDP_PASS", 0, FALSE)
       ELSE [out(s.ctx, s.action, 1, FALSE) EXCEPT !.ifindex = s.ifindex]

\* packet-solutions: xdp_pass_func
xdp_pass_func(c) == ret_plain(c, "XDP_PASS", FALSE)

---------------------------------------------------------------------------
(* Frames: the byte sequences the harnesses feed to the code *)

BE16(v) == <<v \div 256, v % 256>>

Zeros(n) == [i \in 1 .. n |-> 0]

Prefix(f, n) == SubSeq(f, 1, n)

MacDst == <<1, 2, 3, 4, 5, 6>>
MacSrc == <<17, 18, 19, 20, 21, 22>>

EthHdr(proto) == MacDst \o MacSrc \o BE16(proto)

VlanTag(tci, proto) == BE16(tci) \o BE16(proto)

\* the tag protocol of the i-th tag of a stack: 802.1Q and 802.1ad in turn
Tpid(i) == IF i % 2 = 1 THEN ETH_P_8021Q ELSE ETH_P_8021AD

\* an Ethernet header, then k tags, the last one announcing proto
RECURSIVE Tags(_, _, _)
Tags(i, k, proto) ==
    IF i > k THEN <<>>
    ELSE VlanTag(40 + i, IF i = k THEN proto ELSE Tpid(i + 1)) \o Tags(i + 1, k, proto)

EthVlan(k, proto) == EthHdr(IF k = 0 THEN proto ELSE Tpid(1)) \o Tags(1, k, proto)

Ip4Hdr(ihl, ttl, protocol, check, saddr, daddr) ==
    <<64 + ihl, 0, 0, 84, 8, 7, 0, 0, ttl, protocol>> \o BE16(check) \o saddr \o daddr
        \o Zeros(IF ihl > 5 THEN 4 * (ihl - 5) ELSE 0)

Ip6Src == <<32, 1, 13, 184, 0, 0, 0, 0, 0, 0, 0, 0, 0, 0, 0, 1>>
Ip6Dst == <<32, 1, 13, 184, 0, 0, 0, 0, 0, 0, 0, 0, 0, 0, 0, 2>>

Ip6Hdr(nexthdr, hop_limit) ==
    <<96, 0, 0, 0, 0, 8, nexthdr, hop_limit>> \o Ip6Src \o Ip6Dst

IcmpHdr(type, code, check, seq) == <<type, code>> \o BE16(check) \o <<9, 9>> \o BE16(seq)

TcpHdr(dport) == BE16(4660) \o BE16(dport) \o Zeros(16)

UdpHdr(dport) == BE16(4660) \o BE16(dport) \o <<0, 8, 0, 0>>

\* the buffer the kernel hands to a program for frame f
MkCtx(f) ==
    [mem |-> [a \in 0 .. HeadRoom + Len(f) - 1 |->
                IF a < HeadRoom THEN 170 ELSE f[a - HeadRoom + 1]],
     head |-> HeadRoom, tail |-> HeadRoom + Len(f)]

\* the bytes between ctx->data and ctx->data_end
Frame(c) == bytesAt(c.mem, c.head, c.tail - c.head)

\* every truncation of every frame of F
AllPrefixes(F) == UNION {{Prefix(f, n) : n \in 0 .. Len(f)} : f \in F}

Ip4Src == <<10, 0, 0, 1>>
Ip4Dst == <<10, 0, 0, 2>>

IcmpEcho4 == IcmpHdr(ICMP_ECHO, 0, 4321, 7)
IcmpEcho6 == IcmpHdr(ICMPV6_ECHO_REQUEST, 0, 4321, 7)

\* frames the parser harness cuts at every length
ParseBase ==
    { EthVlan(0, ETH_P_IP) \o Ip4Hdr(5, 64, IPPROTO_ICMP, 1000, Ip4Src, Ip4Dst) \o IcmpEcho4,
      EthVlan(1, ETH_P_IP) \o Ip4Hdr(6, 64, IPPROTO_TCP, 1000, Ip4Src, Ip4Dst) \o TcpHdr(80),
      EthVlan(0, ETH_P_IPV6) \o Ip6Hdr(IPPROTO_ICMPV6, 64) \o IcmpEcho6,
      EthVlan(0, ETH_P_IPV6) \o Ip6Hdr(IPPROTO_UDP, 64) \o UdpHdr(0),
      EthVlan(MaxTags, ETH_P_IP) \o Ip4Hdr(5, 64, IPPROTO_ICMP, 1000, Ip4Src, Ip4Dst)
          \o IcmpEcho4 }

\* frames the parser harness feeds whole
ParseFull ==
    { EthVlan(k, ETH_P_IPV6) \o Ip6Hdr(IPPROTO_TCP, 64) \o TcpHdr(0) : k \in 0 .. MaxTags }
    \cup { EthVlan(0, ETH_P_IP) \o Ip4Hdr(ihl, 64, IPPROTO_ICMP, 1000, Ip4Src, Ip4Dst)
               \o IcmpEcho4 : ihl \in 0 .. 15 }
    \cup { EthVlan(0, ETH_P_IP) \o Ip4Hdr(5, 64, IPPROTO_UDP, 1000, Ip4Src, Ip4Dst)
               \o [UdpHdr(53) EXCEPT ![1] = 79] }
    \cup { EthVlan(0, 2054) \o Zeros(28) }

ParseFrames == AllPrefixes(ParseBase) \cup ParseFull

---------------------------------------------------------------------------
(* State *)

NoRun == [prog |-> "none", action |-> "none", ifindex |-> NULL, stats |-> <<>>,
          fib |-> 0, cut |-> FALSE]

\* the record of one helper call: the state before it, its argument and result
Call(op, arg, r) ==
    [op |-> op, arg |-> arg, ret |-> r.ret, iters |-> r.iters,
     pre |-> [ctx |-> pkt, pos |-> nh]]

InitWith(m, F) ==
    /\ mode = m
    /\ be \in BOOLEAN
    /\ \E f \in F : pkt = MkCtx(f)
    /\ pkt0 = pkt
    /\ nh = pkt.head
    /\ last = <<>>
    /\ calls = 0
    /\ run = NoRun

---------------------------------------------------------------------------
(* The parser harness: any parser, in any order, on the cursor *)

InitParse == InitWith("parse", ParseFrames)

\* one parser call on the cursor nh, on the buffer pkt
Parsed(op, r) ==
    /\ mode = "parse"
    /\ calls < MaxCalls
    /\ calls' = calls + 1
    /\ nh' = r.pos
    /\ pkt' = [pkt EXCEPT !.mem = r.mem]
    /\ last' = <<Call(op, 0, r)>>
    /\ UNCHANGED <<be, pkt0, mode, run>>

ParseEthhdr == Parsed("parse_ethhdr", parse_ethhdr(pkt.mem, nh, pkt.tail))

ParseIp6hdr == Parsed("parse_ip6hdr", parse_ip6hdr(pkt.mem, nh, pkt.tail))

ParseIphdr == Parsed("parse_iphdr", parse_iphdr(pkt.mem, nh, pkt.tail))

ParseIcmp6hdr == Parsed("parse_icmp6hdr", parse_icmp6hdr(pkt.mem, nh, pkt.tail))

ParseIcmphdr == Parsed("parse_icmphdr", parse_icmphdr(pkt.mem, nh, pkt.tail))

ParseTcphdr == Parsed("parse_tcphdr", parse_tcphdr(pkt.mem, nh, pkt.tail))

ParseUdphdr == Parsed("parse_udphdr", parse_udphdr(pkt.mem, nh, pkt.tail))

P01ParseEthhdr == Parsed("p01_parse_ethhdr", p01_parse_ethhdr(pkt.mem, nh, pkt.tail))

P01ParseVlanhdr == Parsed("p01_parse_vlanhdr", p01_parse_vlanhdr(pkt.mem, nh, pkt.tail))

P01ParseIp6hdr == Parsed("p01_parse_ip6hdr", p01_parse_ip6hdr(pkt.mem, nh, pkt.tail))

P01ParseIcmp6hdr == Parsed("p01_parse_icmp6hdr", p01_parse_icmp6hdr(pkt.mem, nh, pkt.tail))

NextParse ==
    \/ ParseEthhdr
    \/ ParseIp6hdr
    \/ ParseIphdr
    \/ ParseIcmp6hdr
    \/ ParseIcmphdr
    \/ ParseTcphdr
    \/ ParseUdphdr
    \/ P01ParseEthhdr
    \/ P01ParseVlanhdr
    \/ P01ParseIp6hdr
    \/ P01ParseIcmp6hdr

SpecParse == InitParse /\ [][NextParse]_vars

---------------------------------------------------------------------------
(* The VLAN harness: pops and pushes on a frame whose Ethernet header      *)
(* parses, as xdp_vlan_swap_func calls them, with the functions of one     *)
(* lesson.                                                                 *)

Payloads == {<<>>, <<201>>, <<201, 202, 203, 204>>, <<201, 202, 203, 204, 205, 206, 207>>}

\* the VLAN ids (whole tag control fields) the harness knows
VlanIds == {1, 42, 57386}

VlanFrames ==
    { EthHdr(p) \o pl : p \in {ETH_P_IP, ETH_P_IPV6, 2054}, pl \in Payloads }
    \cup { EthHdr(t) \o VlanTag(tci, p) \o pl :
             t \in {ETH_P_8021Q, ETH_P_8021AD}, tci \in VlanIds \cup {0},
             p \in {ETH_P_IP, 2054}, pl \in {<<>>, <<201, 202, 203, 204, 205>>} }
    \cup { EthVlan(2, ETH_P_IP) \o <<201, 202>>, EthVlan(3, ETH_P_IPV6) }
    \cup { EthHdr(t) \o pl : t \in {ETH_P_8021Q, ETH_P_8021AD},
                             pl \in {<<>>, <<0, 42, 8>>} }

InitVlan ==
    \/ InitWith("vlan_solutions", VlanFrames)
    \/ InitWith("vlan_packet02", VlanFrames)

\* one VLAN call on the buffer, with eth what parse_ethhdr stored
VlanCalled(lesson, op, vlid, r) ==
    /\ mode = lesson
    /\ calls < MaxVlanOps
    /\ parse_ethhdr(pkt.mem, pkt.head, pkt.tail).ret >= 0
    /\ calls' = calls + 1
    /\ pkt' = r.ctx
    /\ nh' = r.ctx.head
    /\ last' = Append(last, Call(op, vlid, [ret |-> r.ret, iters |-> 0]))
    /\ UNCHANGED <<be, pkt0, mode, run>>

VlanTagPop ==
    \E ok \in BOOLEAN :
        VlanCalled("vlan_solutions", "vlan_tag_pop", 0, vlan_tag_pop(pkt, pkt.head, ok))

VlanTagPush ==
    \E ok \in BOOLEAN, vlid \in VlanIds :
        VlanCalled("vlan_solutions", "vlan_tag_push", vlid,
                   vlan_tag_push(pkt, pkt.head, vlid, ok))

P02VlanTagPop ==
    \E ok \in BOOLEAN :
        VlanCalled("vlan_packet02", "vlan_tag_pop", 0, p02_vlan_tag_pop(pkt, pkt.head, ok))

P02VlanTagPush ==
    \E ok \in BOOLEAN, vlid \in VlanIds :
        VlanCalled("vlan_packet02", "vlan_tag_push", vlid,
                   p02_vlan_tag_push(pkt, pkt.head, vlid, ok))

NextVlan ==
    \/ VlanTagPop
    \/ VlanTagPush
    \/ P02VlanTagPop
    \/ P02VlanTagPush

SpecVlan == InitVlan /\ [][NextVlan]_vars

---------------------------------------------------------------------------
(* The checksum harness: the patch of xdp_icmp_echo_func on an ICMP        *)
(* message that arrives with a valid checksum.                             *)

\* the one's-complement sum of the 16-bit words of f from word i on, added
\* with the code's own csum16_add
RECURSIVE OnesSum(_, _)
OnesSum(f, i) ==
    IF 2 * i > Len(f) THEN 0
    ELSE csum16_add(OnesSum(f, i + 1), f[2 * i - 1] * 256 + f[2 * i])

\* the Internet checksum of the message f (of even length), computed in
\* full: the complement of the sum of its words, the checksum field as zero
FullChecksum(f) == not16(OnesSum([f EXCEPT ![3] = 0, ![4] = 0], 1))

CsumWords == {0, 1, 2048, 32768, 63487, 65535}

\* ICMP messages: type, code, checksum, identifier, sequence
CsumMessages ==
    { LET f == <<t, c, 0, 0>> \o BE16(id) \o BE16(seq)
      IN [f EXCEPT ![3] = FullChecksum(f) \div 256, ![4] = FullChecksum(f) % 256] :
        t \in {ICMP_ECHO, ICMPV6_ECHO_REQUEST, 255}, c \in {0, 1, 255},
        id \in CsumWords, seq \in CsumWords }

InitCsum == InitWith("csum", CsumMessages)

\* lines 229-232 of xdp_icmp_echo_func on the message at the head
IcmpPatch ==
    \E echo_reply \in {ICMP_ECHOREPLY, ICMPV6_ECHO_REPLY} :
        /\ mode = "csum"
        /\ calls = 0
        /\ calls' = 1
        /\ pkt' = [pkt EXCEPT !.mem = icmp_patch(pkt.mem, pkt.head, echo_reply)]
        /\ last' = <<Call("icmp_patch", echo_reply, [ret |-> 0, iters |-> 0])>>
        /\ UNCHANGED <<be, pkt0, nh, mode, run>>

NextCsum == IcmpPatch

SpecCsum == InitCsum /\ [][NextCsum]_vars

---------------------------------------------------------------------------
(* The program harness: one packet program runs on one frame *)

Ip4Near == <<8, 0, 0, 1>>
Ip4Far == <<8, 8, 4, 4>>

\* IPv4 frames around ICMP echo, with every header length up to 6 words
Frames4Icmp ==
    { EthVlan(0, ETH_P_IP) \o Ip4Hdr(ihl, ttl, pr, 1000, a[1], a[2]) \o IcmpHdr(ty, 0, 4321, seq) :
        ihl \in 0 .. 6, ttl \in {8, 64}, pr \in {IPPROTO_ICMP, IPPROTO_ICMPV6},
        a \in {<<Ip4Src, Ip4Dst>>, <<Ip4Near, Ip4Far>>},
        ty \in {ICMP_ECHO, ICMP_ECHOREPLY, ICMPV6_ECHO_REQUEST}, seq \in {6, 7} }

\* IPv4 frames for the router: TTL and header checksum vary
Frames4Ttl ==
    { EthVlan(0, ETH_P_IP) \o Ip4Hdr(5, ttl, IPPROTO_ICMP, ck, Ip4Src, Ip4Dst) \o IcmpEcho4 :
        ttl \in {0, 1, 2, 255}, ck \in {1000, 65279, 65535} }

\* IPv4 frames with a transport header
Frames4L4 ==
    { EthVlan(0, ETH_P_IP) \o Ip4Hdr(ihl, 64, pr, 1000, Ip4Src, Ip4Dst) \o l4 :
        ihl \in {5, 6}, pr \in {IPPROTO_TCP, IPPROTO_UDP, 47},
        l4 \in {TcpHdr(0), TcpHdr(80), UdpHdr(256) \o Zeros(12)} }

Frames6 ==
    { EthVlan(0, ETH_P_IPV6) \o Ip6Hdr(nx, hop) \o IcmpHdr(ty, 0, 4321, seq) \o Zeros(12) :
        nx \in {IPPROTO_ICMPV6, IPPROTO_ICMP, IPPROTO_TCP, IPPROTO_UDP, 0},
        hop \in {0, 1, 2, 64},
        ty \in {ICMPV6_ECHO_REQUEST, ICMP_ECHO, ICMPV6_ECHO_REPLY}, seq \in {6, 7} }

FramesVlan ==
    { EthVlan(k, p) \o Ip4Hdr(5, 64, IPPROTO_ICMP, 1000, Ip4Src, Ip4Dst) \o IcmpEcho4 :
        k \in 1 .. MaxTags, p \in {ETH_P_IP} }
    \cup { EthVlan(k, ETH_P_IPV6) \o Ip6Hdr(IPPROTO_ICMPV6, 64) \o IcmpEcho6 :
             k \in 1 .. MaxTags }

FramesOther == { EthVlan(0, 2054) \o Zeros(28), EthVlan(1, 2054) \o Zeros(28) }

ProgFrames ==
    AllPrefixes(ParseBase) \cup Frames4Icmp \cup Frames4Ttl \cup Frames4L4 \cup Frames6
        \cup FramesVlan \cup FramesOther

\* what bpf_fib_lookup may leave in fib_params: the nine results, an error
\* (-EINVAL) and a result of a later kernel (9)
FibResults ==
    { [rc |-> rc, ifindex |-> 3, smac |-> <<33, 34, 35, 36, 37, 38>>,
       dmac |-> <<49, 50, 51, 52, 53, 54>>] : rc \in 0 .. 9 \cup {0 - 22} }

\* what the redirect_params map may hold for a source address
RedirectEntries == {<<>>, <<65, 66, 67, 68, 69, 70>>}

Init == InitWith("prog", ProgFrames)

\* the program prog ran, on input input, with result r
Ran(prog, input, r) ==
    /\ mode = "prog"
    /\ run.prog = "none"
    /\ run' = [prog |-> prog, action |-> r.action, ifindex |-> r.ifindex,
               stats |-> r.stats, fib |-> r.fib, cut |-> r.cut]
    /\ pkt' = r.ctx
    /\ last' = <<[op |-> prog, arg |-> input, ret |-> 0, iters |-> 0,
                  pre |-> [ctx |-> pkt, pos |-> nh]]>>
    /\ calls' = calls + 1
    /\ UNCHANGED <<be, pkt0, nh, mode>>

RunP01Parser == Ran("p01_xdp_parser_func", 0, p01_xdp_parser_func(pkt))

RunP02Parser == Ran("p02_xdp_parser_func", 0, p02_xdp_parser_func(pkt))

RunPortRewrite == Ran("xdp_port_rewrite_func", 0, xdp_port_rewrite_func(pkt))

RunVlanSwap ==
    \E ok \in BOOLEAN : Ran("xdp_vlan_swap_func", ok, xdp_vlan_swap_func(pkt, ok))

RunP02VlanSwap ==
    \E ok \in BOOLEAN : Ran("p02_xdp_vlan_swap_func", ok, p02_xdp_vlan_swap_func(pkt, ok))

RunIcmpEcho == Ran("xdp_icmp_echo_func", 0, xdp_icmp_echo_func(pkt))

RunRedirect ==
    Ran("xdp_redirect_func", 0, xdp_redirect_func(pkt, <<81, 82, 83, 84, 85, 86>>, 5))

RunRedirectMap ==
    \E dst \in RedirectEntries :
        Ran("xdp_redirect_map_func", dst, xdp_redirect_map_func(pkt, dst))

RunRouter ==
    \E fibres \in FibResults : Ran("xdp_router_func", fibres, xdp_router_func(pkt, fibres))

RunPass == Ran("xdp_pass_func", 0, xdp_pass_func(pkt))

Next ==
    \/ RunP01Parser
    \/ RunP02Parser
    \/ RunPortRewrite
    \/ RunVlanSwap
    \/ RunP02VlanSwap
    \/ RunIcmpEcho
    \/ RunRedirect
    \/ RunRedirectMap
    \/ RunRouter
    \/ RunPass

Spec == Init /\ [][Next]_vars

---------------------------------------------------------------------------
(* Claims *)

Min(a, b) == IF a < b THEN a ELSE b

Max(a, b) == IF a > b THEN a ELSE b

ParserOps ==
    {"parse_ethhdr", "parse_ip6hdr", "parse_iphdr", "parse_icmp6hdr", "parse_icmphdr",
     "parse_tcphdr", "parse_udphdr", "p01_parse_ethhdr", "p01_parse_vlanhdr",
     "p01_parse_ip6hdr", "p01_parse_icmp6hdr"}

\* the bytes between the cursor and the tail before call c
Remaining(c) == c.pre.ctx.tail - c.pre.pos

\* the size of the header call c was to parse: fixed, or for IPv4 the ihl * 4
\* the header states, and at least the fixed 20 bytes
HeaderSize(c) ==
    CASE c.op \in {"parse_ethhdr", "p01_parse_ethhdr"} -> 14
      [] c.op = "p01_parse_vlanhdr" -> 4
      [] c.op \in {"parse_ip6hdr", "p01_parse_ip6hdr"} -> 40
      [] c.op \in {"parse_icmphdr", "parse_icmp6hdr", "p01_parse_icmp6hdr"} -> 8
      [] c.op = "parse_tcphdr" -> 20
      [] c.op = "parse_udphdr" -> 8
      [] c.op = "parse_iphdr" ->
           IF Remaining(c) < 20 THEN 20
           ELSE Max(20, 4 * (c.pre.ctx.mem[c.pre.pos] % 16))

\* C1: a parser called with fewer bytes between the cursor and the tail than
\* its header's size returns -1, leaves the cursor where it was and changes
\* no byte of the packet.
C1_TruncatedHeaderIsRefused ==
    \A i \in DOMAIN last :
        (last[i].op \in ParserOps /\ Remaining(last[i]) < HeaderSize(last[i]))
            => /\ last[i].ret = ERR
               /\ nh = last[i].pre.pos
               /\ pkt = last[i].pre.ctx

\* an IPv4 header whose fixed part fits and whose ihl * 4 bytes do not, refused
C1_Witness ==
    /\ last # <<>>
    /\ last[1].op = "parse_iphdr"
    /\ Remaining(last[1]) >= 20
    /\ Remaining(last[1]) < HeaderSize(last[1])
    /\ last[1].ret = ERR

\* the number of complete stacked VLAN tags the wire holds from address at
\* on, when the field before them announces proto
RECURSIVE CompleteTags(_, _, _)
CompleteTags(c, at, proto) ==
    IF proto \in {ETH_P_8021Q, ETH_P_8021AD} /\ at + 4 <= c.tail
    THEN 1 + CompleteTags(c, at + 4, wire16(c.mem, at + 2))
    ELSE 0

\* the tags behind the Ethernet header that call c was to parse
TagsOf(c) ==
    CompleteTags(c.pre.ctx, c.pre.pos + 14, wire16(c.pre.ctx.mem, c.pre.pos + 12))

\* C2: on a complete Ethernet header followed by k complete stacked VLAN
\* tags parse_ethhdr consumes min(k, 5) tags: the cursor ends 14 + 4 * min(k, 5)
\* bytes on, the result is the ethertype the last consumed tag encapsulates
\* (the Ethernet ethertype when k = 0), and the loop runs at most 5 times.
C2_AtMostFiveTagsConsumed ==
    \A i \in DOMAIN last :
        (last[i].op = "parse_ethhdr" /\ Remaining(last[i]) >= 14)
            => LET c == last[i]
                   n == Min(TagsOf(c), 5)
               IN /\ c.iters = n
                  /\ c.iters <= 5
                  /\ nh = c.pre.pos + 14 + 4 * n
                  /\ c.ret = wire16(c.pre.ctx.mem, c.pre.pos + 10 + 4 * n + 2)

\* a frame of more than five tags, parsed from its head
C2_Witness ==
    /\ last # <<>>
    /\ last[1].op = "parse_ethhdr"
    /\ last[1].pre.pos = pkt.head
    /\ Remaining(last[1]) >= 14
    /\ TagsOf(last[1]) > 5
    /\ nh = pkt.head + 34

\* the ethertype field of the Ethernet header at the head of buffer c
OuterProto(c) == wire16(c.mem, c.head + 12)

IsVlanProto(p) == p \in {ETH_P_8021Q, ETH_P_8021AD}

VlanModes == {"vlan_solutions", "vlan_packet02"}

\* the call history is a push that succeeded, then a pop that succeeded
PushThenPop ==
    /\ mode \in VlanModes
    /\ Len(last) = 2
    /\ last[1].op = "vlan_tag_push" /\ last[1].ret = 0
    /\ last[2].op = "vlan_tag_pop" /\ last[2].ret # ERR

\* C3: on a frame whose ethertype is no VLAN tag type, a push of any VLAN id
\* followed by a pop, both succeeding, restores the bytes and the length of
\* the frame, and the pop returns the id pushed.
C3_PushPopRestoresFrame ==
    (PushThenPop /\ ~IsVlanProto(OuterProto(pkt0)))
        => /\ Frame(pkt) = Frame(pkt0)
           /\ pkt.head = pkt0.head /\ pkt.tail = pkt0.tail
           /\ last[2].ret = last[1].arg

\* a push of a control field with priority bits, then a pop, on a frame with payload
C3_Witness ==
    /\ PushThenPop
    /\ ~IsVlanProto(OuterProto(pkt0))
    /\ last[1].arg = 57386
    /\ pkt0.tail - pkt0.head > 14

\* the call history is a pop that succeeded, then a push of what it returned
\* that succeeded, on a frame that carried exactly one tag
PopThenPush ==
    /\ mode \in VlanModes
    /\ Len(last) = 2
    /\ last[1].op = "vlan_tag_pop" /\ last[1].ret # ERR
    /\ last[2].op = "vlan_tag_push" /\ last[2].ret = 0
    /\ last[2].arg = last[1].ret
    /\ IsVlanProto(OuterProto(pkt0))
    /\ ~IsVlanProto(wire16(pkt0.mem, pkt0.head + 16))

\* C4 as stated: a pop followed by a push of the returned value, both
\* succeeding, on a frame with exactly one tag of either tag protocol,
\* restores the frame's bytes, outer ethertype and control field included.
C4_PopPushRestoresFrame ==
    PopThenPush => Frame(pkt) = Frame(pkt0)

\* C4 amended: the pop and push restore the head, the tail and every byte of
\* the frame but the outer ethertype, which the push sets to 802.1Q; so
\* the frame is restored exactly when its tag protocol was 802.1Q, and an
\* 802.1ad frame comes back as an 802.1Q frame.
C4_PopPushRestoresAllButTpid ==
    PopThenPush
        => /\ pkt.head = pkt0.head /\ pkt.tail = pkt0.tail
           /\ Frame(pkt) = [Frame(pkt0) EXCEPT ![13] = 129, ![14] = 0]
           /\ (OuterProto(pkt0) = ETH_P_8021Q => Frame(pkt) = Frame(pkt0))
           /\ (OuterProto(pkt0) = ETH_P_8021AD => Frame(pkt) # Frame(pkt0))

\* an 802.1ad frame whose control field has priority bits, popped and pushed
C4_Witness ==
    /\ PopThenPush
    /\ OuterProto(pkt0) = ETH_P_8021AD
    /\ last[1].ret = 57386
    /\ OuterProto(pkt) = ETH_P_8021Q

\* C5: the checksum the incremental update of xdp_icmp_echo_func leaves in a
\* message that arrived with a valid checksum equals the checksum computed
\* in full over the patched message.
C5_IncrementalEqualsFull ==
    (mode = "csum" /\ calls = 1)
        => wire16(pkt.mem, pkt.head + 2) = FullChecksum(Frame(pkt))

\* the frame of buffer c is Ethernet and IPv4 (IPv6) with its fixed header whole
V4Whole(c) == c.tail - c.head >= 34 /\ OuterProto(c) = ETH_P_IP

V6Whole(c) == c.tail - c.head >= 54 /\ OuterProto(c) = ETH_P_IPV6

TtlOf(c) == c.mem[c.head + 22]

HopLimitOf(c) == c.mem[c.head + 21]

Routed == mode = "prog" /\ run.prog = "xdp_router_func"

\* C6: in xdp_router_func, on an IPv4 or IPv6 packet of TTL or hop limit
\* above 1, the result of the FIB lookup decides: success redirects to the
\* egress interface with the TTL or hop limit down by one and both MAC
\* addresses from the lookup; blackhole, unreachable and prohibit drop; the
\* five others pass the packet untouched.
C6_FibResultDecidesVerdict ==
    (/\ Routed
     /\ \/ (V4Whole(pkt0) /\ TtlOf(pkt0) > 1)
        \/ (V6Whole(pkt0) /\ HopLimitOf(pkt0) > 1)
     /\ last[1].arg.rc \in 0 .. 8)
        => LET f == last[1].arg
           IN /\ f.rc = 0 =>
                   /\ run.action = "XDP_REDIRECT"
                   /\ run.ifindex = f.ifindex
                   /\ V4Whole(pkt0) => TtlOf(pkt) = TtlOf(pkt0) - 1
                   /\ V6Whole(pkt0) => HopLimitOf(pkt) = HopLimitOf(pkt0) - 1
                   /\ bytesAt(pkt.mem, pkt.head, 6) = f.dmac
                   /\ bytesAt(pkt.mem, pkt.head + 6, 6) = f.smac
              /\ f.rc \in 1 .. 3 => run.action = "XDP_DROP"
              /\ f.rc \in 4 .. 8 => (run.action = "XDP_PASS" /\ pkt = pkt0)

\* an IPv6 packet redirected after a successful lookup
C6_Witness ==
    /\ Routed
    /\ V6Whole(pkt0) /\ HopLimitOf(pkt0) = 2
    /\ last[1].arg.rc = 0
    /\ run.action = "XDP_REDIRECT"
    /\ HopLimitOf(pkt) = 1

\* C7: xdp_router_func passes every IPv4 packet of TTL <= 1 and every IPv6
\* packet of hop limit <= 1, without a FIB lookup and without a change to
\* the packet.
C7_ExhaustedTtlPasses ==
    (/\ Routed
     /\ \/ (V4Whole(pkt0) /\ TtlOf(pkt0) <= 1)
        \/ (V6Whole(pkt0) /\ HopLimitOf(pkt0) <= 1))
        => (run.action = "XDP_PASS" /\ run.fib = 0 /\ pkt = pkt0)

\* an IPv4 packet of TTL 1, routed with a lookup result that would redirect
C7_Witness ==
    /\ Routed
    /\ V4Whole(pkt0) /\ TtlOf(pkt0) = 1
    /\ last[1].arg.rc = 0
    /\ run.action = "XDP_PASS"

Programs ==
    {"p01_xdp_parser_func", "p02_xdp_parser_func", "xdp_port_rewrite_func",
     "xdp_vlan_swap_func", "p02_xdp_vlan_swap_func", "xdp_icmp_echo_func",
     "xdp_redirect_func", "xdp_redirect_map_func", "xdp_router_func", "xdp_pass_func"}

\* the programs that end in `return xdp_stats_record_action(ctx, action)`
Recording ==
    {"p01_xdp_parser_func", "p02_xdp_parser_func", "xdp_icmp_echo_func",
     "xdp_redirect_func", "xdp_redirect_map_func", "xdp_router_func"}

\* C8 as stated: every program hands the verdict it returns to the
\* statistics collector, exactly once.
C8_EveryProgramRecordsOnce ==
    run.prog \in Programs => run.stats = <<run.action>>

\* C8 amended: xdp_parser_func (both lessons), xdp_icmp_echo_func,
\* xdp_redirect_func, xdp_redirect_map_func and xdp_router_func call the
\* collector exactly once, with the verdict they return; xdp_port_rewrite_func,
\* xdp_vlan_swap_func (both lessons) and xdp_pass_func return Pass and never
\* call it.
C8_RecordingProgramsRecordOnce ==
    /\ run.prog \in Recording => run.stats = <<run.action>>
    /\ run.prog \in Programs \ Recording => (run.stats = <<>> /\ run.action = "XDP_PASS")

\* the router recording the drop of a blackholed packet
C8_Witness ==
    /\ Routed
    /\ last[1].arg.rc = 1
    /\ run.action = "XDP_DROP"
    /\ run.stats = <<"XDP_DROP">>

\* the programs that go on to an IPv4 or IPv6 header behind the Ethernet header
L3Programs ==
    {"p02_xdp_parser_func", "xdp_port_rewrite_func", "xdp_icmp_echo_func",
     "xdp_router_func"}

\* the run met a header that did not fit: a bounds check of the run failed, or
\* the wire shows the frame ending inside the Ethernet header, or inside the
\* IPv4 or IPv6 header that the untagged frame announces
HeaderCut ==
    LET len == pkt0.tail - pkt0.head
    IN \/ run.cut
       \/ run.prog \in Programs \ {"xdp_pass_func"} /\ len < 14
       \/ run.prog \in L3Programs /\ len >= 14 /\ len < 34
            /\ OuterProto(pkt0) = ETH_P_IP
       \/ run.prog \in L3Programs \cup {"p01_xdp_parser_func"} /\ len >= 14 /\ len < 54
            /\ OuterProto(pkt0) = ETH_P_IPV6

L3Tags(c) ==
    IF c.tail - c.head < 14 THEN 0
    ELSE Min(CompleteTags(c, c.head + 14, OuterProto(c)), VLAN_MAX_DEPTH)

L3Off(c) == c.head + 14 + 4 * L3Tags(c)

L3Proto(c) == wire16(c.mem, L3Off(c) - 2)

\* where the frame's ICMP header starts: behind the ihl * 4 bytes of the IPv4
\* header, or behind the 40 bytes of the IPv6 header
Icmp4Off(c) == L3Off(c) + 4 * (c.mem[L3Off(c)] % 16)

Icmp6Off(c) == L3Off(c) + 40

\* buffer c holds, whole, Ethernet + IPv4 + an ICMP echo request
IsEcho4(c) ==
    /\ c.tail - c.head >= 14
    /\ L3Proto(c) = ETH_P_IP
    /\ L3Off(c) + 20 <= c.tail
    /\ Icmp4Off(c) <= c.tail
    /\ c.mem[L3Off(c) + 9] = IPPROTO_ICMP
    /\ Icmp4Off(c) + 8 <= c.tail
    /\ c.mem[Icmp4Off(c)] = ICMP_ECHO

\* buffer c holds, whole, Ethernet + IPv6 + an ICMPv6 echo request
IsEcho6(c) ==
    /\ c.tail - c.head >= 14
    /\ L3Proto(c) = ETH_P_IPV6
    /\ L3Off(c) + 40 <= c.tail
    /\ c.mem[L3Off(c) + 6] = IPPROTO_ICMPV6
    /\ Icmp6Off(c) + 8 <= c.tail
    /\ c.mem[Icmp6Off(c)] = ICMPV6_ECHO_REQUEST

MacsSwapped ==
    /\ bytesAt(pkt.mem, pkt.head, 6) = bytesAt(pkt0.mem, pkt0.head + 6, 6)
    /\ bytesAt(pkt.mem, pkt.head + 6, 6) = bytesAt(pkt0.mem, pkt0.head, 6)

\* the n-byte fields at a and b have exchanged their values
FieldsSwapped(a, b, n) ==
    /\ bytesAt(pkt.mem, a, n) = bytesAt(pkt0.mem, b, n)
    /\ bytesAt(pkt.mem, b, n) = bytesAt(pkt0.mem, a, n)

\* C10: xdp_icmp_echo_func returns Transmit exactly when the frame parses
\* fully as Ethernet + IPv4 + ICMP echo request or as Ethernet + IPv6 +
\* ICMPv6 echo request; then the MAC addresses are swapped, the IP addresses
\* are swapped and the ICMP type is the echo reply of the family; any other
\* frame is passed with no byte changed.
C10_TransmitExactlyOnEchoRequest ==
    (mode = "prog" /\ run.prog = "xdp_icmp_echo_func")
        => /\ run.action = "XDP_TX" <=> (IsEcho4(pkt0) \/ IsEcho6(pkt0))
           /\ IsEcho4(pkt0) =>
                /\ MacsSwapped
                /\ FieldsSwapped(L3Off(pkt0) + 12, L3Off(pkt0) + 16, 4)
                /\ pkt.mem[Icmp4Off(pkt0)] = ICMP_ECHOREPLY
           /\ IsEcho6(pkt0) =>
                /\ MacsSwapped
                /\ FieldsSwapped(L3Off(pkt0) + 8, L3Off(pkt0) + 24, 16)
                /\ pkt.mem[Icmp6Off(pkt0)] = ICMPV6_ECHO_REPLY
           /\ ~(IsEcho4(pkt0) \/ IsEcho6(pkt0)) => (run.action = "XDP_PASS" /\ pkt = pkt0)

\* the buffer as call i of the history left it
After(i) == IF i = Len(last) THEN pkt ELSE last[i + 1].pre.ctx

\* C11: a vlan_tag_pop or vlan_tag_push that returns failure, on a frame whose
\* Ethernet header parsed, leaves the head, the tail and every byte of the
\* buffer as they were before the call.
C11_FailedVlanOpLeavesBuffer ==
    mode \in VlanModes
        => \A i \in DOMAIN last : last[i].ret = ERR => After(i) = last[i].pre.ctx

\* a push refused by the head resize on an untagged frame, and a pop refused
\* by the head resize on a tagged frame whose tag is whole
C11_Witness ==
    /\ mode \in VlanModes
    /\ \E i \in DOMAIN last :
         /\ last[i].ret = ERR
         /\ \/ /\ last[i].op = "vlan_tag_push"
               /\ ~IsVlanProto(OuterProto(last[i].pre.ctx))
            \/ /\ last[i].op = "vlan_tag_pop"
               /\ IsVlanProto(OuterProto(last[i].pre.ctx))
               /\ last[i].pre.ctx.tail - last[i].pre.ctx.head >= 18
         /\ After(i) = last[i].pre.ctx

\* call i of the history was refused and left the buffer as it was
Refused(i) == last[i].ret = ERR /\ After(i) = last[i].pre.ctx

\* C12: a vlan_tag_push on a frame whose ethertype is already a VLAN tag
\* type, and a vlan_tag_pop on a frame whose ethertype is no VLAN tag type,
\* return -1 without resizing the buffer or changing a byte.
C12_WrongTagStateIsRefused ==
    mode \in VlanModes
        => \A i \in DOMAIN last :
             LET tagged == IsVlanProto(OuterProto(last[i].pre.ctx))
             IN /\ (last[i].op = "vlan_tag_push" /\ tagged) => Refused(i)
                /\ (last[i].op = "vlan_tag_pop" /\ ~tagged) => Refused(i)

\* the bytes a successful call c consumes, read from the wire: the Ethernet
\* header with at most VLAN_MAX_DEPTH complete tags, the ihl * 4 bytes the IPv4
\* header states, or the fixed size of the header
Consumed(c) ==
    CASE c.op = "parse_ethhdr" -> 14 + 4 * Min(TagsOf(c), VLAN_MAX_DEPTH)
      [] c.op = "parse_iphdr" -> 4 * (c.pre.ctx.mem[c.pre.pos] % 16)
      [] OTHER -> HeaderSize(c)

\* C13: after any sequence of parser calls from the head of the buffer the
\* cursor lies between the head and the tail; no call moves it back: a
\* successful call advances it by exactly the size of its header (ihl * 4
\* for IPv4, for every ihl in 0 .. 15) and a failing call leaves it in place.
C13_CursorStaysInBufferAndNeverRetreats ==
    mode = "parse"
        => /\ pkt.head <= nh /\ nh <= pkt.tail
           /\ \A i \in DOMAIN last :
                /\ last[i].op \in ParserOps
                /\ nh >= last[i].pre.pos
                /\ last[i].ret = ERR => nh = last[i].pre.pos
                /\ last[i].ret # ERR => nh = last[i].pre.pos + Consumed(last[i])

\* behind parse_ethhdr, parse_iphdr on a header of ihl 15 that fits moves
\* the cursor 60 bytes on
C13_Witness ==
    /\ mode = "parse"
    /\ calls = 2
    /\ last # <<>>
    /\ last[1].op = "parse_iphdr"
    /\ last[1].ret # ERR
    /\ last[1].pre.pos = pkt.head + 14
    /\ last[1].pre.ctx.mem[last[1].pre.pos] % 16 = 15
    /\ nh = last[1].pre.pos + 60

\* where the transport header of the frame in buffer c starts
L4Off(c) == IF L3Proto(c) = ETH_P_IP THEN Icmp4Off(c) ELSE Icmp6Off(c)

\* buffer c holds, whole, Ethernet + IPv4 or IPv6 announcing TCP or UDP + the
\* TCP or UDP header
HasL4Header(c) ==
    /\ c.tail - c.head >= 14
    /\ \/ /\ L3Proto(c) = ETH_P_IP
          /\ L3Off(c) + 20 <= c.tail
          /\ Icmp4Off(c) <= c.tail
          /\ c.mem[L3Off(c) + 9] \in {IPPROTO_TCP, IPPROTO_UDP}
          /\ L4Off(c) + (IF c.mem[L3Off(c) + 9] = IPPROTO_TCP THEN 20 ELSE 8) <= c.tail
       \/ /\ L3Proto(c) = ETH_P_IPV6
          /\ L3Off(c) + 40 <= c.tail
          /\ c.mem[L3Off(c) + 6] \in {IPPROTO_TCP, IPPROTO_UDP}
          /\ L4Off(c) + (IF c.mem[L3Off(c) + 6] = IPPROTO_TCP THEN 20 ELSE 8) <= c.tail

\* the bytes of m with the big-endian 16-bit field at a decremented modulo 2^16
Decremented(m, a) ==
    LET v == (wire16(m, a) + 65535) % 65536
    IN [m EXCEPT ![a] = v \div 256, ![a + 1] = v % 256]

\* C14: xdp_port_rewrite_func changes a packet only when an IPv4 or IPv6
\* header that parsed announces TCP or UDP and that header is reached, and
\* then only the destination port, one less modulo 2^16; it changes no byte
\* of any other packet (Ethernet header cut short, ARP or another non-IP
\* ethertype, an ethertype that still denotes VLAN, another IP protocol).
C14_OnlyDestPortOfTcpUdpRewritten ==
    (mode = "prog" /\ run.prog = "xdp_port_rewrite_func")
        => /\ pkt.head = pkt0.head /\ pkt.tail = pkt0.tail
           /\ pkt.mem = IF HasL4Header(pkt0)
                        THEN Decremented(pkt0.mem, L4Off(pkt0) + 2)
                        ELSE pkt0.mem

\* the tags parse_ethhdr is to consume in call c, and the ethertype the wire
\* holds behind them
TagsDue(c) == Min(TagsOf(c), VLAN_MAX_DEPTH)

LastProto(c) == wire16(c.pre.ctx.mem, c.pre.pos + 12 + 4 * TagsDue(c))

\* the bytes left behind the tags parse_ethhdr is to consume in call c
BehindTags(c) == Remaining(c) - 14 - 4 * TagsDue(c)

\* C15 as stated: parse_ethhdr returns 0x8100 or 0x88A8 only when it consumed
\* exactly 5 tags and the 5th tag's encapsulated ethertype is a VLAN type; a
\* VLAN ethertype followed by fewer than 4 bytes gives -1.
C15_VlanResultOnlyAtBound ==
    \A i \in DOMAIN last :
        (last[i].op = "parse_ethhdr" /\ Remaining(last[i]) >= 14)
            => LET c == last[i]
               IN /\ IsVlanProto(c.ret) => (TagsDue(c) = 5 /\ IsVlanProto(LastProto(c)))
                  /\ (IsVlanProto(LastProto(c)) /\ TagsDue(c) < 5 /\ BehindTags(c) < 4)
                        => c.ret = ERR

\* C15 amended: on a frame whose Ethernet header fits parse_ethhdr never
\* returns -1; it returns 0x8100 or 0x88A8 exactly when the ethertype behind
\* the tags it consumed is that value, which happens when it consumed 5 tags
\* and the 5th encapsulates a VLAN type, or when it consumed fewer than 5 and
\* fewer than 4 bytes follow the VLAN ethertype; the cursor then rests
\* behind the last complete tag.
C15_VlanResultAtBoundOrCutTag ==
    \A i \in DOMAIN last :
        (last[i].op = "parse_ethhdr" /\ Remaining(last[i]) >= 14)
            => LET c == last[i]
               IN /\ c.ret # ERR
                  /\ IsVlanProto(c.ret) <=> IsVlanProto(LastProto(c))
                  /\ IsVlanProto(c.ret) =>
                       /\ c.ret = LastProto(c)
                       /\ TagsDue(c) = 5 \/ BehindTags(c) < 4
                       /\ nh = c.pre.pos + 14 + 4 * TagsDue(c)

\* an Ethernet header of ethertype 802.1Q with two bytes behind it: the result
\* is 0x8100 and the cursor rests behind the Ethernet header
C15_Witness ==
    /\ last # <<>>
    /\ last[1].op = "parse_ethhdr"
    /\ last[1].pre.pos = pkt.head
    /\ Remaining(last[1]) = 16
    /\ last[1].ret = ETH_P_8021Q
    /\ nh = pkt.head + 14

===========================================================================
